---------------------------- MODULE Spec2Model ----------------------------
(***************************************************************************)
(* A model of yap's `annotate` command (src/src/annotate.rs), of the CLI   *)
(* dispatch that feeds it (src/src/main.rs), of the engine message it      *)
(* decodes (src/src/openai/chat_api.rs) and of the errors it returns       *)
(* (src/src/err.rs); and, each under a specification of its own, of the    *)
(* printing of an error chain (SpecErr), of the chatlog listing            *)
(* (src/src/chatlog.rs, SpecChatlog), of a chat turn and its persisted     *)
(* history (src/src/chat.rs and src/src/db.rs, SpecChat) and of parse_uuid *)
(* (src/src/db.rs, SpecUuid).                                              *)
(*                                                                         *)
(* Strings are sequences of one-character strings, so that splitting into  *)
(* lines, numbering, comment formatting and the writer's byte stream are   *)
(* computed the way the code computes them.  An Option<T> is a sequence of *)
(* length at most one: None is <<>>, Some(v) is <<v>>.                     *)
(***************************************************************************)
EXTENDS Integers, Sequences, FiniteSets, TLC

VARIABLES
    pc,                   \* position inside dispatch / annotate / the apply harness
    file,                 \* the bytes of the target file on disk
    cli,                  \* the parsed Command::Annotate arguments
    line_start,           \* annotate's line_start parameter
    line_end,             \* annotate's line_end parameter (Option<usize>)
    file_type_info,       \* FileTypeInfo built from the comment prefix / suffix
    file_contents,        \* annotate's file_contents (what read_to_string returned)
    target_contents,      \* the numbered text sent to the engine as the user message
    response_annotations, \* AnnotationResponse.annotations as decoded (window-relative)
    annotations,          \* the Vec<Annotation> handed to apply_annotations
    write_buffer,         \* the writer apply_annotations writes into
    result,               \* outcome of the invocation: "running", "Ok", "Err", "panic"
    choices,              \* response.choices, once chat() has returned Ok
    message,              \* response.choices[0].message, once chat() has returned Ok
    error,                \* the Error returned on failure: its oopsies, first to last
    rendered,             \* what Display for Error wrote, line by line
    conversations,        \* db::list_conversations(): the chat files, in directory order
    trunc,                \* Command::Chatlog::trunc
    listed,               \* the conversations ConversationSet::load went through
    chat_file,            \* the chat file of the id in YAP_CHAT_HISTORY_FILE
    path,                 \* the path handed to parse_uuid
    uuid                  \* what parse_uuid returned

vars == <<pc, file, cli, line_start, line_end, file_type_info, file_contents,
          target_contents, response_annotations, annotations, write_buffer, result,
          choices, message, error, rendered, conversations, trunc, listed, chat_file, path, uuid>>

(* The state of the other commands, which annotate leaves alone.           *)
elsewhere == <<rendered, conversations, trunc, listed, chat_file, path, uuid>>

(* The state of annotate, which the other commands leave alone.            *)
annotate_state ==
    <<file, cli, line_start, line_end, file_type_info, file_contents, target_contents,
      response_annotations, annotations, write_buffer, choices, message>>

-----------------------------------------------------------------------------
(* Bounds of the model.                                                    *)

MaxFileLen == 3
MaxLineNumber == 3
MaxAnnotations == 3
MaxEngineAnnotations == 1
MaxOopsies == 3
MaxConversations == 3
MaxTurns == 2
MaxParts == 3

(* usize::MAX.  TLC's integers are 32 bits wide, so the largest of them    *)
(* stands for 2^64 - 1; all that matters of it is that it exceeds every    *)
(* line count and that a wrapped subtraction lands just below it.          *)
UsizeMax == 2147483647

-----------------------------------------------------------------------------
(* Options and characters.                                                 *)

None == <<>>
Some(v) == <<v>>

NL == "\n"
CR == "\r"

Min(a, b) == IF a <= b THEN a ELSE b

RECURSIVE Flatten(_)
Flatten(ss) == IF ss = <<>> THEN <<>> ELSE Head(ss) \o Flatten(Tail(ss))

(* All strings over the alphabet `chars` of length at most n.              *)
StringsUpTo(chars, n) == UNION {[1..k -> chars] : k \in 0..n}

-----------------------------------------------------------------------------
(* Standard-library text operations used by annotate.                      *)

(* str::split("\n"): the pieces between newlines; always at least one      *)
(* piece, and a trailing newline yields a final empty piece.               *)
RECURSIVE split_from(_, _, _)
split_from(s, i, cur) ==
    IF i > Len(s) THEN <<cur>>
    ELSE IF s[i] = NL THEN <<cur>> \o split_from(s, i + 1, <<>>)
    ELSE split_from(s, i + 1, Append(cur, s[i]))

split_nl(s) == split_from(s, 1, <<>>)

(* BufRead::lines / str::lines: each line ends at a newline, which is      *)
(* removed together with a carriage return right before it; text after the *)
(* last newline is a line only when it is non-empty.                       *)
strip_cr(l) == IF l # <<>> /\ l[Len(l)] = CR THEN SubSeq(l, 1, Len(l) - 1) ELSE l

RECURSIVE lines_from(_, _, _)
lines_from(s, i, cur) ==
    IF i > Len(s) THEN (IF cur = <<>> THEN <<>> ELSE <<cur>>)
    ELSE IF s[i] = NL THEN <<strip_cr(cur)>> \o lines_from(s, i + 1, <<>>)
    ELSE lines_from(s, i + 1, Append(cur, s[i]))

lines(s) == lines_from(s, 1, <<>>)

(* Iterator::skip and Iterator::take on a sequence.                        *)
skip(s, n) == SubSeq(s, n + 1, Len(s))
take(s, n) == SubSeq(s, 1, Min(n, Len(s)))

(* usize's Display: the decimal digits of n, most significant first.       *)
Digits == <<"0", "1", "2", "3", "4", "5", "6", "7", "8", "9">>

RECURSIVE to_string(_)
to_string(n) ==
    IF n < 10 THEN <<Digits[n + 1]>>
    ELSE Append(to_string(n \div 10), Digits[(n % 10) + 1])

(* String::pop: removes the last character, if there is one.               *)
pop(s) == IF s = <<>> THEN s ELSE SubSeq(s, 1, Len(s) - 1)

-----------------------------------------------------------------------------
(* annotate.rs: the comment formatter and the merge.                       *)

DefaultPrefix == <<"/", "/", " ">>
DefaultSuffix == <<>>
YapTag == <<"y", "a", "p", " ", ":", ":", " ">>

(* A faulty variant that ignores the style it is given.                    *)
FileTypeInfo_new_ignoring_style(prefix, suffix) ==
    [comment_prefix |-> DefaultPrefix, comment_suffix |-> DefaultSuffix]

(* FileTypeInfo::new                                                       *)
FileTypeInfo_new(prefix, suffix) ==
    [comment_prefix |-> IF prefix = None THEN DefaultPrefix ELSE prefix[1],
     comment_suffix |-> IF suffix = None THEN DefaultSuffix ELSE suffix[1]]

(* The body of yapify_annotation_content's loop for one line of content.   *)
yapify_line(line, info) ==
    info.comment_prefix \o YapTag \o line \o info.comment_suffix \o <<NL>>

RECURSIVE yapify_lines(_, _)
yapify_lines(ls, info) ==
    IF ls = <<>> THEN <<>>
    ELSE yapify_line(Head(ls), info) \o yapify_lines(Tail(ls), info)

yapify_annotation_content(content, info) == pop(yapify_lines(lines(content), info))

(* Faulty variants of the sort, against which the ordering properties are  *)
(* tested: one that orders by descending key, one that does not sort.      *)
RECURSIVE insert_by_key_descending(_, _)
insert_by_key_descending(sorted, a) ==
    IF sorted = <<>> THEN <<a>>
    ELSE IF Head(sorted).line_number >= a.line_number
         THEN <<Head(sorted)>> \o insert_by_key_descending(Tail(sorted), a)
         ELSE <<a>> \o sorted

sort_by_key_unsorted(v) == v

(* Vec::sort_by_key(|a| a.line_number): a stable sort.                     *)
RECURSIVE insert_by_key(_, _)
insert_by_key(sorted, a) ==
    IF sorted = <<>> THEN <<a>>
    ELSE IF Head(sorted).line_number <= a.line_number
         THEN <<Head(sorted)>> \o insert_by_key(Tail(sorted), a)
         ELSE <<a>> \o sorted

RECURSIVE sort_by_key(_)
sort_by_key(v) ==
    IF v = <<>> THEN <<>>
    ELSE insert_by_key(sort_by_key(SubSeq(v, 1, Len(v) - 1)), v[Len(v)])

(* One iteration of apply_annotations' loop.  `line_number` is the         *)
(* enumerate() index (0-based) and `cur` the position of                   *)
(* current_annotation in the sorted vector (Len + 1 when it is None).      *)
annotation_matches(line_number, sorted, cur) ==
    /\ cur <= Len(sorted)
    /\ line_number + 1 = sorted[cur].line_number

(* Faulty variants of the loop body: one that writes the comment block in  *)
(* place of the line it annotates, one that writes an unannotated line     *)
(* without its newline.                                                    *)
write_line_without_original(line, line_number, sorted, cur, info) ==
    IF annotation_matches(line_number, sorted, cur)
    THEN yapify_annotation_content(sorted[cur].content, info) \o <<NL>>
    ELSE line \o <<NL>>

write_line_unterminated(line, line_number, sorted, cur, info) ==
    IF annotation_matches(line_number, sorted, cur)
    THEN yapify_annotation_content(sorted[cur].content, info) \o <<NL>> \o line \o <<NL>>
    ELSE line

write_line(line, line_number, sorted, cur, info) ==
    IF annotation_matches(line_number, sorted, cur)
    THEN yapify_annotation_content(sorted[cur].content, info) \o <<NL>> \o line \o <<NL>>
    ELSE line \o <<NL>>

next_annotation(line_number, sorted, cur) ==
    IF annotation_matches(line_number, sorted, cur) THEN cur + 1 ELSE cur

RECURSIVE apply_loop(_, _, _, _, _)
apply_loop(ls, line_number, sorted, cur, info) ==
    IF line_number >= Len(ls) THEN <<>>
    ELSE write_line(ls[line_number + 1], line_number, sorted, cur, info)
         \o apply_loop(ls, line_number + 1, sorted,
                       next_annotation(line_number, sorted, cur), info)

(* A faulty variant of the merge: after the last line it writes the        *)
(* comment blocks of the annotations the cursor has not reached.           *)
RECURSIVE remaining_blocks(_, _, _)
remaining_blocks(sorted, cur, info) ==
    IF cur > Len(sorted) THEN <<>>
    ELSE yapify_annotation_content(sorted[cur].content, info) \o <<NL>>
         \o remaining_blocks(sorted, cur + 1, info)

RECURSIVE final_annotation(_, _, _, _)
final_annotation(ls, line_number, sorted, cur) ==
    IF line_number >= Len(ls) THEN cur
    ELSE final_annotation(ls, line_number + 1, sorted,
                          next_annotation(line_number, sorted, cur))

apply_annotations_flushing_rest(reader, anns, info) ==
    apply_loop(lines(reader), 0, sort_by_key(anns), 1, info)
    \o remaining_blocks(sort_by_key(anns),
                        final_annotation(lines(reader), 0, sort_by_key(anns), 1), info)

(* apply_annotations over an in-memory reader and writer: what is written. *)
apply_annotations(reader, anns, info) ==
    apply_loop(lines(reader), 0, sort_by_key(anns), 1, info)

-----------------------------------------------------------------------------
(* annotate.rs: window selection, numbering and rebasing.                  *)

(* line_end.map(|v| v - line_start).unwrap_or(usize::MAX), for the case    *)
(* where the subtraction does not overflow.                                *)
take_count(start, end) == IF end = None THEN UsizeMax ELSE end[1] - start

(* Whether v - line_start overflows: line_end is Some(v) with v below      *)
(* line_start.                                                             *)
subtraction_overflows(start, end) == IF end = None THEN FALSE ELSE end[1] < start

(* The same subtraction when it wraps around (a build without overflow     *)
(* checks).                                                                *)
wrapped_take_count(start, end) == UsizeMax - (start - end[1]) + 1

select_window(contents, start, count) == take(skip(split_nl(contents), start), count)

(* .enumerate().fold(..): write!(acc, "{} {}", idx + 1, line)              *)
RECURSIVE number_from(_, _)
number_from(ls, idx) ==
    IF idx >= Len(ls) THEN <<>>
    ELSE to_string(idx + 1) \o <<" ">> \o ls[idx + 1] \o number_from(ls, idx + 1)

number_lines(ls) == number_from(ls, 0)

(* A faulty variant that takes line_start for the number of the window's   *)
(* first line.                                                             *)
rebase_one_from_one(a, start) == [a EXCEPT !.line_number = @ + start - 1]

(* annotation.line_number += line_start, for every record in order.        *)
rebase_one(a, start) == [a EXCEPT !.line_number = @ + start]

rebase(anns, start) == [i \in 1..Len(anns) |-> rebase_one(anns[i], start)]

-----------------------------------------------------------------------------
(* err.rs: an Error is the sequence of its oopsies, each a variant with an *)
(* optional context.  A context is the tuple of the pieces format! joins.  *)

Error_default == <<>>

(* Error::wrap                                                             *)
wrap(e, oops) == Append(e, [variant |-> oops, ctx |-> None])

(* A faulty variant that attaches the context to every frame.              *)
because_everywhere(e, ctx) == [i \in 1..Len(e) |-> [e[i] EXCEPT !.ctx = Some(ctx)]]

(* Error::because                                                          *)
because(e, ctx) ==
    IF e = <<>> THEN e ELSE [e EXCEPT ![Len(e)] = [@ EXCEPT !.ctx = Some(ctx)]]

-----------------------------------------------------------------------------
(* chat_api.rs: Message::parse.                                            *)

(* A faulty variant that takes the content whenever there is one.          *)
Message_parse_content_first(m) ==
    IF m.content # None
        THEN [ok |-> TRUE, kind |-> "Normal", value |-> m.content[1]]
    ELSE IF m.refusal # None
        THEN [ok |-> TRUE, kind |-> "Refusal", value |-> m.refusal[1]]
    ELSE [ok |-> FALSE, err |-> wrap(Error_default, "OpenAIEmptyContent")]

(* Message::parse: Ok(Content::Normal), Ok(Content::Refusal) or an Err.    *)
Message_parse(m) ==
    IF m.content # None /\ m.refusal # None
        THEN [ok |-> FALSE, err |-> wrap(Error_default, "OpenAIContentAndRefusal")]
    ELSE IF m.content # None
        THEN [ok |-> TRUE, kind |-> "Normal", value |-> m.content[1]]
    ELSE IF m.refusal # None
        THEN [ok |-> TRUE, kind |-> "Refusal", value |-> m.refusal[1]]
    ELSE [ok |-> FALSE, err |-> wrap(Error_default, "OpenAIEmptyContent")]

-----------------------------------------------------------------------------
(* serde_json::from_str::<AnnotationResponse>.  A text is given by the     *)
(* JSON value it spells, or is not JSON at all.  Numbers are unsigned      *)
(* integers, negative integers or fractions.                               *)

JMalformed == [t |-> "malformed"]
JNull == [t |-> "null"]
JNum(kind, n) == [t |-> "num", kind |-> kind, n |-> n]
JStr(str) == [t |-> "str", s |-> str]
JArr(items) == [t |-> "arr", items |-> items]
JObj(members) == [t |-> "obj", members |-> members]
Member(k, v) == [key |-> k, value |-> v]

(* The values an object gives to a key, in order of appearance.            *)
ValuesOf(v, k) ==
    LET hits == SelectSeq(v.members, LAMBDA m : m.key = k)
    IN  [i \in 1..Len(hits) |-> hits[i].value]

(* usize: a number that is an unsigned integer.                            *)
is_usize(v) == IF v.t = "num" THEN v.kind = "uint" ELSE FALSE

(* String: a JSON string.                                                  *)
is_string(v) == v.t = "str"

(* #[derive(Deserialize)] struct Annotation { line_number, content }: from *)
(* an object, every field exactly once and of its type, other keys         *)
(* ignored; or from an array holding exactly the fields in order.          *)
annotation_ok(v) ==
    IF v.t = "obj" THEN
        /\ Len(ValuesOf(v, "line_number")) = 1
        /\ Len(ValuesOf(v, "content")) = 1
        /\ is_usize(ValuesOf(v, "line_number")[1])
        /\ is_string(ValuesOf(v, "content")[1])
    ELSE IF v.t = "arr" THEN
        /\ Len(v.items) = 2
        /\ is_usize(v.items[1])
        /\ is_string(v.items[2])
    ELSE FALSE

annotation_of(v) ==
    IF v.t = "obj"
    THEN [line_number |-> ValuesOf(v, "line_number")[1].n,
          content |-> ValuesOf(v, "content")[1].s]
    ELSE [line_number |-> v.items[1].n, content |-> v.items[2].s]

(* Vec<Annotation>: an array whose items all are annotations.              *)
annotations_ok(v) ==
    IF v.t = "arr" THEN \A i \in 1..Len(v.items) : annotation_ok(v.items[i]) ELSE FALSE

annotations_of(v) == [i \in 1..Len(v.items) |-> annotation_of(v.items[i])]

(* #[derive(Deserialize)] struct AnnotationResponse { annotations }.       *)
response_ok(v) ==
    IF v.t = "obj" THEN
        /\ Len(ValuesOf(v, "annotations")) = 1
        /\ annotations_ok(ValuesOf(v, "annotations")[1])
    ELSE IF v.t = "arr" THEN
        /\ Len(v.items) = 1
        /\ annotations_ok(v.items[1])
    ELSE FALSE

response_of(v) ==
    IF v.t = "obj" THEN annotations_of(ValuesOf(v, "annotations")[1])
    ELSE annotations_of(v.items[1])

(* from_str: Ok(AnnotationResponse) or Err.                                *)
from_str(v) ==
    IF response_ok(v) THEN [ok |-> TRUE, annotations |-> response_of(v)]
    ELSE [ok |-> FALSE]

-----------------------------------------------------------------------------
(* The inputs the model draws from.                                        *)

DocChars == {"a", NL}

(* Every text of at most MaxFileLen characters, and two texts whose first  *)
(* line ends in a carriage return (before a newline, and at end of file).  *)
Docs == StringsUpTo(DocChars, MaxFileLen) \cup {<<"a", CR, NL, "a">>, <<"a", CR>>}

(* Annotation bodies handed to apply_annotations: an empty one and one of  *)
(* two lines.                                                              *)
Contents == {<<>>, <<"x", NL, "y">>}

(* Annotation bodies the engine answers with: one line, and one line       *)
(* followed by a line break.                                               *)
EngineContents == {<<"x">>, <<"y", NL>>}

LineNumbers == 0..MaxLineNumber

Annotation == [line_number : LineNumbers, content : Contents]

EngineAnnotation == [line_number : LineNumbers, content : EngineContents]

VecsUpTo(S, n) == UNION {[1..k -> S] : k \in 0..n}

(* typical_info() and html_info() of the unit tests.                       *)
typical_info == FileTypeInfo_new(Some(<<"/", "/", " ">>), Some(<<>>))
html_info ==
    FileTypeInfo_new(Some(<<"<", "!", "-", "-", " ">>), Some(<<" ", "-", "-", ">">>))

OptLineNumbers == {None} \cup {Some(n) : n \in LineNumbers}

CommentStyles ==
    {[comment_prefix |-> None, comment_suffix |-> None],
     [comment_prefix |-> Some(html_info.comment_prefix),
      comment_suffix |-> Some(html_info.comment_suffix)]}

Commands ==
    {[line_start |-> s, line_end |-> e,
      comment_prefix |-> c.comment_prefix, comment_suffix |-> c.comment_suffix] :
        s \in OptLineNumbers, e \in OptLineNumbers, c \in CommentStyles}

NoCommand ==
    [line_start |-> None, line_end |-> None,
     comment_prefix |-> None, comment_suffix |-> None]

(* No annotate invocation is under way.                                    *)
AnnotateIdle ==
    /\ file = <<>>
    /\ cli = NoCommand
    /\ line_start = 0
    /\ line_end = None
    /\ file_type_info = FileTypeInfo_new(None, None)
    /\ file_contents = <<>>
    /\ target_contents = <<>>
    /\ response_annotations = <<>>
    /\ annotations = <<>>
    /\ write_buffer = <<>>
    /\ choices = <<>>
    /\ message = None

(* There is no chat file.                                                  *)
NoChatFile == [exists |-> FALSE, text |-> [t |-> "null"]]

(* Nothing has been rendered, listed, stored or parsed.                    *)
ElsewhereIdle ==
    /\ rendered = <<>>
    /\ conversations = <<>>
    /\ trunc = None
    /\ listed = <<>>
    /\ chat_file = NoChatFile
    /\ path = None
    /\ uuid = None

-----------------------------------------------------------------------------
(* The annotate command: Command::dispatch followed by annotate's steps.   *)

Init ==
    /\ pc = "dispatch"
    /\ file \in Docs
    /\ cli \in Commands
    /\ line_start = 0
    /\ line_end = None
    /\ file_type_info = FileTypeInfo_new(None, None)
    /\ file_contents = <<>>
    /\ target_contents = <<>>
    /\ response_annotations = <<>>
    /\ annotations = <<>>
    /\ write_buffer = <<>>
    /\ result = "running"
    /\ choices = <<>>
    /\ message = None
    /\ error = Error_default
    /\ ElsewhereIdle

(* Command::dispatch, the Annotate arm: line_start.unwrap_or(1).           *)
Dispatch ==
    /\ pc = "dispatch"
    /\ line_start' = IF cli.line_start = None THEN 1 ELSE cli.line_start[1]
    /\ line_end' = cli.line_end
    /\ pc' = "read"
    /\ UNCHANGED <<file, cli, file_type_info, file_contents, target_contents,
                   response_annotations, annotations, write_buffer, result,
                   message, choices, error>>
    /\ UNCHANGED elsewhere

(* read_to_string(file) and FileTypeInfo::new.                             *)
ReadFile ==
    /\ pc = "read"
    /\ file_contents' = file
    /\ file_type_info' = FileTypeInfo_new(cli.comment_prefix, cli.comment_suffix)
    /\ pc' = "window"
    /\ UNCHANGED <<file, cli, line_start, line_end, target_contents,
                   response_annotations, annotations, write_buffer, result,
                   message, choices, error>>
    /\ UNCHANGED elsewhere

(* split / skip / take / enumerate / fold, when v - line_start is defined. *)
SelectWindow ==
    /\ pc = "window"
    /\ ~subtraction_overflows(line_start, line_end)
    /\ target_contents' =
           number_lines(select_window(file_contents, line_start,
                                      take_count(line_start, line_end)))
    /\ pc' = "prompt"
    /\ UNCHANGED <<file, cli, line_start, line_end, file_type_info, file_contents,
                   response_annotations, annotations, write_buffer, result,
                   message, choices, error>>
    /\ UNCHANGED elsewhere

(* v - line_start with v < line_start: a build with overflow checks        *)
(* panics there.                                                           *)
SelectWindowPanic ==
    /\ pc = "window"
    /\ subtraction_overflows(line_start, line_end)
    /\ pc' = "panicked"
    /\ result' = "panic"
    /\ UNCHANGED <<file, cli, line_start, line_end, file_type_info, file_contents,
                   target_contents, response_annotations, annotations, write_buffer,
                   message, choices, error>>
    /\ UNCHANGED elsewhere

(* ... and a build without them wraps around.                              *)
SelectWindowWrap ==
    /\ pc = "window"
    /\ subtraction_overflows(line_start, line_end)
    /\ target_contents' =
           number_lines(select_window(file_contents, line_start,
                                      wrapped_take_count(line_start, line_end)))
    /\ pc' = "prompt"
    /\ UNCHANGED <<file, cli, line_start, line_end, file_type_info, file_contents,
                   response_annotations, annotations, write_buffer, result,
                   message, choices, error>>
    /\ UNCHANGED elsewhere

(* A faulty variant in which a failing step leaves the file truncated.     *)
Fails_truncating(e) ==
    /\ pc' = "failed"
    /\ result' = "Err"
    /\ error' = e
    /\ file' = <<>>
    /\ UNCHANGED <<cli, line_start, line_end, file_type_info, file_contents,
                   target_contents, response_annotations, annotations, write_buffer,
                   message, choices>>
    /\ UNCHANGED elsewhere

(* The step at pc fails: annotate returns Err(e).                           *)
Fails(e) ==
    /\ pc' = "failed"
    /\ result' = "Err"
    /\ error' = e
    /\ UNCHANGED <<file, cli, line_start, line_end, file_type_info, file_contents,
                   target_contents, response_annotations, annotations, write_buffer,
                   message, choices>>
    /\ UNCHANGED elsewhere

(* OpenAI::from_env without OPENAI_API_KEY: dispatch returns before        *)
(* annotate is called.                                                     *)
DispatchKeyMissing ==
    /\ pc = "dispatch"
    /\ Fails(wrap(Error_default, "OpenAIKeyMissing"))

(* read_to_string(file) fails.                                             *)
ReadFileFails ==
    /\ pc = "read"
    /\ Fails(because(wrap(Error_default, "AnnotateError"),
                     <<"Error while opening the file to annotate", "io error">>))

(* The errors ConfigFile::load returns.                                    *)
ConfigErrors ==
    {because(wrap(because(wrap(Error_default, "XdgConfigError"),
                          <<"$XDG_CONFIG_HOME is not defined.">>),
                  "XdgConfigError"),
             <<"Error while getting system prompt for completion">>),
     because(wrap(Error_default, "XdgConfigError"),
             <<"Could not read_to_string", "io error">>)}

(* ConfigFile::AnnotateSystemPrompt.load(): a custom prompt or none.       *)
LoadPrompt ==
    /\ pc = "prompt"
    /\ pc' = "chat"
    /\ UNCHANGED <<file, cli, line_start, line_end, file_type_info, file_contents,
                   target_contents, response_annotations, annotations, write_buffer,
                   result, message, choices, error>>
    /\ UNCHANGED elsewhere

LoadPromptFails ==
    /\ pc = "prompt"
    /\ \E e \in ConfigErrors :
           Fails(because(wrap(e, "AnnotateError"),
                         <<"Needed to load annotate system prompt to do annotations">>))

EngineAnnotations == VecsUpTo(EngineAnnotation, MaxEngineAnnotations)

(* The JSON text the schema asks the engine for, given the records.        *)
annotation_json(a, more) ==
    JObj(<<Member("line_number", JNum("uint", a.line_number)),
           Member("content", JStr(a.content))>> \o more)

response_json(r, more) ==
    JObj(<<Member("annotations",
                  JArr([i \in 1..Len(r) |-> annotation_json(r[i], <<>>)]))>> \o more)

Record1 == [line_number |-> 1, content |-> <<"x">>]

(* One annotation item in place of the well-formed one.                    *)
WithItem(item) == JObj(<<Member("annotations", JArr(<<item>>))>>)

(* Texts that follow the schema.                                           *)
SchemaDocs == {response_json(r, <<>>) : r \in EngineAnnotations}

(* Texts with a property the schema does not have.                         *)
AdditionalPropertyDocs ==
    {response_json(<<Record1>>, <<Member("note", JStr(<<"x">>))>>),
     WithItem(annotation_json(Record1, <<Member("note", JNull)>>))}

(* Texts that spell a structure as the array of its fields' values.        *)
PositionalDocs ==
    {WithItem(JArr(<<JNum("uint", 1), JStr(<<"x">>)>>)),
     JArr(<<JArr(<<annotation_json(Record1, <<>>)>>)>>)}

(* Texts that are not JSON, have a value of the wrong type, or lack a      *)
(* field.                                                                  *)
BrokenDocs ==
    {JMalformed,
     JNull,
     JObj(<<>>),
     JObj(<<Member("annotations", JNull)>>),
     WithItem(JStr(<<"x">>)),
     WithItem(JObj(<<Member("line_number", JStr(<<"1">>)),
                     Member("content", JStr(<<"x">>))>>)),
     WithItem(JObj(<<Member("line_number", JNum("negative", 1)),
                     Member("content", JStr(<<"x">>))>>)),
     WithItem(JObj(<<Member("line_number", JNum("fraction", 1)),
                     Member("content", JStr(<<"x">>))>>)),
     WithItem(JObj(<<Member("line_number", JNum("uint", 1)),
                     Member("content", JNum("uint", 1))>>)),
     WithItem(JObj(<<Member("line_number", JNum("uint", 1)),
                     Member("content", JNull)>>)),
     WithItem(JObj(<<Member("content", JStr(<<"x">>))>>)),
     WithItem(JObj(<<Member("line_number", JNum("uint", 1))>>)),
     WithItem(JArr(<<JNum("uint", 1)>>))}

EngineDocs == SchemaDocs \cup AdditionalPropertyDocs \cup PositionalDocs \cup BrokenDocs

RefusalTexts == {"I can't help with that", "no"}

(* response.choices[0].message of a response chat() accepts.               *)
Messages ==
    {[content |-> Some(v), refusal |-> None] : v \in EngineDocs}
    \cup {[content |-> None, refusal |-> Some(r)] : r \in RefusalTexts}
    \cup {[content |-> Some(response_json(<<>>, <<>>)), refusal |-> Some(r)] :
              r \in RefusalTexts}
    \cup {[content |-> None, refusal |-> None]}

(* A choice of a response.                                                 *)
Choice(m, reason) == [message |-> m, finish_reason |-> reason]

(* A message whose content follows the schema, and one cut short.          *)
WholeMessage == [content |-> Some(response_json(<<Record1>>, <<>>)), refusal |-> None]
CutMessage == [content |-> Some(JMalformed), refusal |-> None]

(* The responses the engine answers with: one choice that finished with    *)
(* Stop, no choice, and responses whose first choice finished with Length. *)
Responses ==
    {<<Choice(m, "Stop")>> : m \in Messages}
    \cup {<<>>}
    \cup {<<Choice(m, "Length")>> : m \in {WholeMessage, CutMessage}}
    \cup {<<Choice(m, "Length"), Choice(WholeMessage, "Length")>> :
              m \in {WholeMessage, CutMessage}}
    \cup {<<Choice(m, "Length"), Choice(WholeMessage, "Stop")>> :
              m \in {WholeMessage, CutMessage}}

(* A faulty variant that accepts whatever has a choice.                    *)
validate_any_choice(cs) ==
    IF cs = <<>> THEN [ok |-> FALSE, err |-> wrap(Error_default, "OpenAIEmptyChoices")]
    ELSE [ok |-> TRUE]

(* CompletionResponse::validate                                            *)
validate(cs) ==
    IF cs = <<>> THEN [ok |-> FALSE, err |-> wrap(Error_default, "OpenAIEmptyChoices")]
    ELSE IF \A i \in 1..Len(cs) : cs[i].finish_reason # "Stop"
        THEN [ok |-> FALSE,
              err |-> because(wrap(Error_default, "OpenAIBadFinishReason"),
                              <<"Finish reason was ", cs[1].finish_reason,
                                " instead of stop">>)]
    ELSE [ok |-> TRUE]

(* The errors chat() returns before validate(): the request, the response  *)
(* body.                                                                   *)
ChatErrors ==
    {wrap(wrap(Error_default, "UreqTransportError"), "OpenAIChatResponse"),
     wrap(because(wrap(Error_default, "UreqHttpError"),
                  <<"Received unsuccessful HTTP response", "status">>),
          "OpenAIChatResponse"),
     because(wrap(Error_default, "OpenAIChatDeserialization"), <<"serde error">>)}

(* chat() returns a response that validate() accepts: its choices, and the *)
(* first choice's message.                                                 *)
Chat ==
    /\ pc = "chat"
    /\ \E r \in Responses :
           /\ validate(r).ok
           /\ choices' = r
           /\ message' = Some(r[1].message)
    /\ pc' = "parse"
    /\ UNCHANGED <<file, cli, line_start, line_end, file_type_info, file_contents,
                   target_contents, response_annotations, annotations, write_buffer,
                   result, error>>
    /\ UNCHANGED elsewhere

(* The request fails or the response body is not a CompletionResponse.     *)
ChatFails ==
    /\ pc = "chat"
    /\ \E e \in ChatErrors :
           Fails(because(wrap(e, "AnnotateError"),
                         <<"Error after sending annotation payload to OpenAI">>))

(* validate() rejects the response.                                        *)
ChatRejected ==
    /\ pc = "chat"
    /\ \E r \in Responses :
           /\ ~validate(r).ok
           /\ Fails(because(wrap(validate(r).err, "AnnotateError"),
                            <<"Error after sending annotation payload to OpenAI">>))

(* A faulty variant that takes a refusal for an answer without             *)
(* annotations.                                                            *)
decode_refusing_nothing(m) ==
    LET parsed == Message_parse(m) IN
    IF ~parsed.ok THEN
        [ok |-> FALSE,
         err |-> because(wrap(parsed.err, "AnnotateError"),
                         <<"Could not parse OpenAi response content">>)]
    ELSE IF parsed.kind = "Refusal" THEN
        [ok |-> TRUE, annotations |-> <<>>]
    ELSE IF ~from_str(parsed.value).ok THEN
        [ok |-> FALSE,
         err |-> because(wrap(Error_default, "AnnotateError"),
                         <<"Failed to deserialize annotation string into annotations: ",
                           "serde error">>)]
    ELSE [ok |-> TRUE, annotations |-> from_str(parsed.value).annotations]

(* message.parse(), the match on Content and from_str: the decoded         *)
(* annotations, or the error annotate returns.                             *)
decode(m) ==
    LET parsed == Message_parse(m) IN
    IF ~parsed.ok THEN
        [ok |-> FALSE,
         err |-> because(wrap(parsed.err, "AnnotateError"),
                         <<"Could not parse OpenAi response content">>)]
    ELSE IF parsed.kind = "Refusal" THEN
        [ok |-> FALSE,
         err |-> because(wrap(Error_default, "AnnotateError"),
                         <<"OpenAI sent a refusal in response to your annotation request: ",
                           parsed.value>>)]
    ELSE IF ~from_str(parsed.value).ok THEN
        [ok |-> FALSE,
         err |-> because(wrap(Error_default, "AnnotateError"),
                         <<"Failed to deserialize annotation string into annotations: ",
                           "serde error">>)]
    ELSE [ok |-> TRUE, annotations |-> from_str(parsed.value).annotations]

ParseMessage ==
    /\ pc = "parse"
    /\ decode(message[1]).ok
    /\ response_annotations' = decode(message[1]).annotations
    /\ pc' = "rebase"
    /\ UNCHANGED <<file, cli, line_start, line_end, file_type_info, file_contents,
                   target_contents, annotations, write_buffer, result, message, choices, error>>
    /\ UNCHANGED elsewhere

ParseMessageFails ==
    /\ pc = "parse"
    /\ ~decode(message[1]).ok
    /\ Fails(decode(message[1]).err)

(* The drain(..).fold(..) that adds line_start to every line_number.       *)
Rebase ==
    /\ pc = "rebase"
    /\ annotations' = rebase(response_annotations, line_start)
    /\ pc' = "apply"
    /\ UNCHANGED <<file, cli, line_start, line_end, file_type_info, file_contents,
                   target_contents, response_annotations, write_buffer, result,
                   message, choices, error>>
    /\ UNCHANGED elsewhere

(* apply_annotations(reader, &mut write_buffer, annotations, ..)           *)
Apply ==
    /\ pc = "apply"
    /\ write_buffer' = apply_annotations(file_contents, annotations, file_type_info)
    /\ pc' = "write"
    /\ UNCHANGED <<file, cli, line_start, line_end, file_type_info, file_contents,
                   target_contents, response_annotations, annotations, result,
                   message, choices, error>>
    /\ UNCHANGED elsewhere

(* File::create(file) fails: the file is not opened.                       *)
CreateFails ==
    /\ pc = "write"
    /\ Fails(because(wrap(Error_default, "AnnotateError"),
                     <<"Could not open annotation target for writing", "io error">>))

(* File::create truncates the file, then write fails.                      *)
WriteFails ==
    /\ pc = "write"
    /\ file' = <<>>
    /\ pc' = "failed"
    /\ result' = "Err"
    /\ error' = because(wrap(Error_default, "AnnotateError"),
                        <<"Error while writing annotations", "io error">>)
    /\ UNCHANGED <<cli, line_start, line_end, file_type_info, file_contents,
                   target_contents, response_annotations, annotations, write_buffer,
                   message, choices>>
    /\ UNCHANGED elsewhere

(* File::create(file)?.write(&write_buffer)                                *)
WriteFile ==
    /\ pc = "write"
    /\ file' = write_buffer
    /\ result' = "Ok"
    /\ pc' = "done"
    /\ UNCHANGED <<cli, line_start, line_end, file_type_info, file_contents,
                   target_contents, response_annotations, annotations, write_buffer,
                   message, choices, error>>
    /\ UNCHANGED elsewhere

Next ==
    \/ Dispatch
    \/ DispatchKeyMissing
    \/ ReadFile
    \/ ReadFileFails
    \/ SelectWindow
    \/ SelectWindowPanic
    \/ SelectWindowWrap
    \/ LoadPrompt
    \/ LoadPromptFails
    \/ Chat
    \/ ChatFails
    \/ ChatRejected
    \/ ParseMessage
    \/ ParseMessageFails
    \/ Rebase
    \/ Apply
    \/ CreateFails
    \/ WriteFails
    \/ WriteFile

Spec == Init /\ [][Next]_vars

-----------------------------------------------------------------------------
(* apply_annotations on its own, called the way the unit tests call it:    *)
(* an in-memory reader, an in-memory writer, any vector of annotations.    *)

AnnotationVecs == VecsUpTo(Annotation, MaxAnnotations)

(* The comment styles tried with a vector: the default one always, the     *)
(* HTML one with the vectors shorter than the longest.                     *)
StylesFor(anns) ==
    IF Len(anns) < MaxAnnotations THEN {typical_info, html_info} ELSE {typical_info}

InitApply ==
    /\ pc = "apply_call"
    /\ file = <<>>
    /\ cli = NoCommand
    /\ line_start = 0
    /\ line_end = None
    /\ annotations \in AnnotationVecs
    /\ file_type_info \in StylesFor(annotations)
    /\ file_contents \in Docs
    /\ target_contents = <<>>
    /\ response_annotations = <<>>
    /\ write_buffer = <<>>
    /\ result = "running"
    /\ choices = <<>>
    /\ message = None
    /\ error = Error_default
    /\ ElsewhereIdle

ApplyCall ==
    /\ pc = "apply_call"
    /\ write_buffer' = apply_annotations(file_contents, annotations, file_type_info)
    /\ result' = "Ok"
    /\ pc' = "apply_done"
    /\ UNCHANGED <<file, cli, line_start, line_end, file_type_info, file_contents,
                   target_contents, response_annotations, annotations,
                   message, choices, error>>
    /\ UNCHANGED elsewhere

NextApply == ApplyCall

SpecApply == InitApply /\ [][NextApply]_vars

-----------------------------------------------------------------------------
(* Properties of the annotate command (specification Spec).                *)

AfterWindow == pc \in {"prompt", "chat", "parse", "rebase", "apply", "write", "done"}
AfterRebase == pc \in {"apply", "write", "done"}

(* The document as the merge reads it: its lines, 1-based.                 *)
DocLines == lines(file_contents)

IsPrefix(p, s) == Len(p) <= Len(s) /\ SubSeq(s, 1, Len(p)) = p

(* The window (line_start, line_end) lies inside the document and is not   *)
(* empty: 1 <= start <= end <= N.                                          *)
WindowInsideDocument ==
    IF line_end = None THEN FALSE
    ELSE 1 <= line_start /\ line_start <= line_end[1] /\ line_end[1] <= Len(DocLines)

(* C1: for a window with 1 <= start <= end <= N, the numbered text sent to *)
(* the engine is made of exactly the document's lines start..end           *)
(* (inclusive, 1-based).                                                   *)
C1_WindowIsLinesStartToEnd ==
    (AfterWindow /\ WindowInsideDocument) =>
        target_contents = number_lines(SubSeq(DocLines, line_start, line_end[1]))

(* C2: after rebasing, every record's line_number is its window-relative   *)
(* number plus (line_start - 1), for every line_start >= 1.                *)
C2_RebaseMapsOneToStart ==
    (AfterRebase /\ line_start >= 1) =>
        /\ Len(annotations) = Len(response_annotations)
        /\ \A i \in 1..Len(annotations) :
               annotations[i].line_number =
                   response_annotations[i].line_number + (line_start - 1)

(* C3: when annotate is invoked without line_start (and without line_end)  *)
(* on a file that has a first line, the numbered text sent to the engine   *)
(* starts with line 1 of the file.                                         *)
C3_DefaultWindowStartsAtLineOne ==
    (AfterWindow /\ cli.line_start = None /\ cli.line_end = None /\ DocLines # <<>>) =>
        IsPrefix(to_string(1) \o <<" ">> \o DocLines[1], target_contents)

-----------------------------------------------------------------------------
(* Properties of apply_annotations (specification SpecApply).              *)

ApplyDone == pc = "apply_done"

(* The output as lines: what precedes each newline of the writer's bytes.  *)
OutputLines == LET p == split_nl(write_buffer) IN SubSeq(p, 1, Len(p) - 1)

EveryLineTerminated == write_buffer = <<>> \/ write_buffer[Len(write_buffer)] = NL

LineNumbersOf(anns) == {anns[k].line_number : k \in 1..Len(anns)}

DistinctLineNumbers(anns) ==
    \A i, j \in 1..Len(anns) : anns[i].line_number = anns[j].line_number => i = j

AllInDocument(anns) ==
    \A k \in 1..Len(anns) : anns[k].line_number \in 1..Len(DocLines)

(* The positions (in arrival order) of the records addressed to line n.    *)
RecordsAt(n) == {k \in 1..Len(annotations) : annotations[k].line_number = n}

(* The earliest-arrived record addressed to line n.                        *)
FirstRecordAt(n) == annotations[CHOOSE k \in RecordsAt(n) : \A m \in RecordsAt(n) : k <= m]

(* A comment block as it appears in the output: the formatted content and  *)
(* the newline that ends it.                                               *)
Block(content) == yapify_annotation_content(content, file_type_info) \o <<NL>>

(* The document with, before each line that has a record, that record's    *)
(* comment block (the earliest record's, should a line have several).      *)
MergedAt(n) ==
    IF RecordsAt(n) = {} THEN DocLines[n] \o <<NL>>
    ELSE Block(FirstRecordAt(n).content) \o DocLines[n] \o <<NL>>

Merged == Flatten([n \in 1..Len(DocLines) |-> MergedAt(n)])

(* C4: with pairwise distinct line numbers, all in 1..N, in any arrival    *)
(* order, the output is the document with each record's comment block      *)
(* immediately before the line it names (so blocks are in line order).     *)
C4_BlocksBeforeTheirLines ==
    (ApplyDone /\ DistinctLineNumbers(annotations) /\ AllInDocument(annotations)) =>
        write_buffer = Merged

C4_Witness ==
    /\ ApplyDone
    /\ DistinctLineNumbers(annotations)
    /\ AllInDocument(annotations)
    /\ Len(annotations) >= 2
    /\ annotations[1].line_number > annotations[2].line_number
    /\ write_buffer = Merged

(* The lines annotations can add to the output: every physical line of     *)
(* every record's comment block.                                           *)
Range(f) == {f[i] : i \in DOMAIN f}

InsertedLines ==
    UNION {Range(split_nl(yapify_annotation_content(annotations[k].content, file_type_info))) :
               k \in 1..Len(annotations)}

(* out[i..] is doc[j..] with lines of the set `ins` in between.            *)
RECURSIVE OriginalsRemain(_, _, _, _, _)
OriginalsRemain(out, i, doc, j, ins) ==
    IF i > Len(out) THEN j > Len(doc)
    ELSE \/ (IF j <= Len(doc) THEN out[i] = doc[j] ELSE FALSE)
            /\ OriginalsRemain(out, i + 1, doc, j + 1, ins)
         \/ out[i] \in ins /\ OriginalsRemain(out, i + 1, doc, j, ins)

OnlyInsertions ==
    LET out == OutputLines
        doc == DocLines
    IN  IF Len(out) = Len(doc) THEN out = doc
        ELSE Len(out) > Len(doc) /\ OriginalsRemain(out, 1, doc, 1, InsertedLines)

(* C5: for every document and annotation set, deleting inserted annotation *)
(* lines from the output leaves exactly the document's lines, in order.    *)
C5_OriginalLinesPreserved == ApplyDone => (EveryLineTerminated /\ OnlyInsertions)

C5_Witness ==
    /\ ApplyDone
    /\ Len(DocLines) >= 2
    /\ Len(OutputLines) > Len(DocLines)
    /\ ~DistinctLineNumbers(annotations)
    /\ 0 \in LineNumbersOf(annotations) \/ Len(DocLines) + 1 \in LineNumbersOf(annotations)
    /\ OnlyInsertions

(* The number of line breaks embedded in a content string.                 *)
Breaks(content) == Cardinality({i \in 1..Len(content) : content[i] = NL})

RECURSIVE LawSum(_, _)
LawSum(anns, n) ==
    IF anns = <<>> THEN 0
    ELSE (IF Head(anns).line_number <= n THEN Breaks(Head(anns).content) + 1 ELSE 0)
         + LawSum(Tail(anns), n)

(* C6: the output has exactly N + sum of (k_r + 1) lines, over the records *)
(* r with line_number <= N, k_r the line breaks in r's content.            *)
C6_LineCountLaw ==
    ApplyDone => Len(OutputLines) = Len(DocLines) + LawSum(annotations, Len(DocLines))

(* A valid annotation set: every line_number is a positive integer.        *)
ValidSet(anns) == \A k \in 1..Len(anns) : anns[k].line_number >= 1

(* The permutations of 1..n, for every length an annotation vector has.    *)
OrdersOf ==
    [n \in 0..MaxAnnotations |->
        {p \in [1..n -> 1..n] : \A i, j \in 1..n : p[i] = p[j] => i = j}]

Permuted(anns, p) == [i \in 1..Len(anns) |-> anns[p[i]]]

SameOutputInAnyOrder ==
    \A p \in OrdersOf[Len(annotations)] :
        apply_annotations(file_contents, Permuted(annotations, p), file_type_info)
            = write_buffer

(* C7 (as claimed): for any valid annotation set, supplying its records in *)
(* any other order gives the identical output.                             *)
C7_OrderIndependence ==
    (ApplyDone /\ ValidSet(annotations)) => SameOutputInAnyOrder

(* C7 (amended): for any valid annotation set whose line numbers are       *)
(* pairwise distinct, supplying its records in any other order gives the   *)
(* identical output.                                                       *)
C7_OrderIndependenceDistinct ==
    (ApplyDone /\ ValidSet(annotations) /\ DistinctLineNumbers(annotations)) =>
        SameOutputInAnyOrder

C7_Witness ==
    /\ ApplyDone
    /\ ValidSet(annotations)
    /\ DistinctLineNumbers(annotations)
    /\ AllInDocument(annotations)
    /\ Len(annotations) >= 3
    /\ annotations[1].line_number > annotations[3].line_number
    /\ annotations[3].line_number > annotations[2].line_number
    /\ annotations[1].content # annotations[2].content
    /\ SameOutputInAnyOrder

(* The lines with two or more records.                                     *)
CollidingLines == {n \in 1..Len(DocLines) : Cardinality(RecordsAt(n)) >= 2}

(* What can stand before a line in the output: nothing, or the comment     *)
(* block of one of the records.                                            *)
BlockChoices ==
    {<<>>} \cup {Block(annotations[k].content) : k \in 1..Len(annotations)}

(* C8: when two records share a line_number n in 1..N, exactly one of them *)
(* is rendered, the earlier in arrival order: the output has, before line  *)
(* n, the comment block of the earliest record addressed to n and no other *)
(* (whatever stands before the other lines).                               *)
C8_FirstOfCollidingRecordsRendered ==
    ApplyDone =>
        \E b \in [1..Len(DocLines) -> BlockChoices] :
            /\ \A n \in CollidingLines : b[n] = Block(FirstRecordAt(n).content)
            /\ write_buffer = Flatten([n \in 1..Len(DocLines) |-> b[n] \o DocLines[n] \o <<NL>>])

(* The vector without its k-th record.                                     *)
Without(anns, k) == SubSeq(anns, 1, k - 1) \o SubSeq(anns, k + 1, Len(anns))

BeyondDocument(k) == annotations[k].line_number > Len(DocLines)

(* C9: a record whose line_number exceeds N causes no error and adds       *)
(* nothing: apply_annotations returns Ok and the output is what it is      *)
(* without that record.                                                    *)
C9_RecordBeyondEndIgnored ==
    ApplyDone =>
        \A k \in 1..Len(annotations) :
            BeyondDocument(k) =>
                /\ result = "Ok"
                /\ write_buffer =
                       apply_annotations(file_contents, Without(annotations, k), file_type_info)

C9_Witness ==
    /\ ApplyDone
    /\ result = "Ok"
    /\ Len(annotations) >= 2
    /\ BeyondDocument(1)
    /\ ~BeyondDocument(2)
    /\ Len(OutputLines) > Len(DocLines)
    /\ write_buffer = apply_annotations(file_contents, Without(annotations, 1), file_type_info)

HasCarriageReturn(s) == \E i \in 1..Len(s) : s[i] = CR

(* The text with a newline after its last line, if it lacks one.           *)
NewlineTerminated(s) == IF s = <<>> \/ s[Len(s)] = NL THEN s ELSE s \o <<NL>>

(* C10: with no annotations the output is the input line for line, every   *)
(* output line ending in a newline; for a text without carriage returns it *)
(* is the input, byte for byte, plus a final newline if that was missing.  *)
C10_EmptySetIsIdentity ==
    (ApplyDone /\ annotations = <<>>) =>
        /\ OutputLines = DocLines
        /\ EveryLineTerminated
        /\ ~HasCarriageReturn(file_contents) =>
               write_buffer = NewlineTerminated(file_contents)

C10_Witness ==
    /\ ApplyDone
    /\ annotations = <<>>
    /\ Len(DocLines) >= 2
    /\ file_contents[Len(file_contents)] # NL
    /\ write_buffer = file_contents \o <<NL>>

-----------------------------------------------------------------------------
(* Further properties of the annotate command (specification Spec): the    *)
(* comment formatter, the prompt encoder, the window's bounds.             *)

(* The lines of a text that is not terminated by a newline.                *)
PhysicalLines(text) == IF text = <<>> THEN <<>> ELSE split_nl(text)

(* What the formatter returns for a content, line by line.                 *)
Rendered(content) == split_nl(yapify_annotation_content(content, file_type_info))

(* C11: a content with k line breaks is rendered as exactly k + 1 lines,   *)
(* the i-th of them being the i-th piece of the content between its line   *)
(* breaks, commented; also for a content that ends with a line break.      *)
C11_BreaksPlusOneRenderedLines ==
    AfterRebase =>
        \A k \in 1..Len(annotations) :
            LET content == annotations[k].content IN
            /\ Len(Rendered(content)) = Breaks(content) + 1
            /\ \A i \in 1..Len(Rendered(content)) :
                   Rendered(content)[i] = pop(yapify_line(split_nl(content)[i], file_type_info))

(* The comment style the caller supplied on the command line.              *)
SuppliedPrefix == IF cli.comment_prefix = None THEN <<"/", "/", " ">> ELSE cli.comment_prefix[1]
SuppliedSuffix == IF cli.comment_suffix = None THEN <<>> ELSE cli.comment_suffix[1]

CommentLine(L) == SuppliedPrefix \o YapTag \o L \o SuppliedSuffix

(* The comment lines of every record, in the supplied style.               *)
CommentLines ==
    UNION {{CommentLine(lines(annotations[k].content)[i]) :
                i \in 1..Len(lines(annotations[k].content))} : k \in 1..Len(annotations)}

Merged_ == pc \in {"write", "done"}

CodeWindow == select_window(file_contents, line_start, take_count(line_start, line_end))

(* C13: the text sent to the engine has one physical line per line of the  *)
(* window, in order: the j-th is the number j, a space and the j-th line   *)
(* of the window.                                                          *)
C13_OneNumberedLinePerWindowLine ==
    (AfterWindow /\ ~subtraction_overflows(line_start, line_end)) =>
        PhysicalLines(target_contents) =
            [j \in 1..Len(CodeWindow) |-> to_string(j) \o <<" ">> \o CodeWindow[j]]

WindowStepTaken == pc \in {"panicked", "prompt", "chat", "parse", "rebase", "apply", "write", "done"}

(* C19: with line_end below line_start the window selection fails with an  *)
(* error: the invocation never panics and never goes on with a window.     *)
C19_EndBelowStartIsAnError ==
    subtraction_overflows(line_start, line_end) => ~WindowStepTaken

(* C20: for a window whose end is not below its start: when line_start     *)
(* exceeds the document's line count N the window is empty, and when       *)
(* line_end exceeds N the window is the one selected with line_end = N.    *)
C20_BoundsBeyondDocumentClamped ==
    (WindowStepTaken /\ ~subtraction_overflows(line_start, line_end)) =>
        /\ pc # "panicked"
        /\ line_start > Len(DocLines) => target_contents = <<>>
        /\ line_end # None =>
               (line_end[1] > Len(DocLines) =>
                    target_contents =
                        number_lines(select_window(file_contents, line_start,
                                                   Len(DocLines) - line_start)))

-----------------------------------------------------------------------------
(* Properties of annotate's failures (specification Spec).                 *)

(* C14: no step other than the final write changes the file, so a failure  *)
(* of any earlier step leaves the file as it was; and when the file is     *)
(* rewritten the buffer holds the complete merged output.                  *)
C14_FileUntouchedBeforeWrite ==
    [][/\ pc # "write" => file' = file
       /\ file' # file =>
              write_buffer = apply_annotations(file_contents, annotations, file_type_info)]_vars

LastOopsie == error[Len(error)]

C14_Witness ==
    /\ pc = "failed"
    /\ message # None
    /\ LastOopsie.ctx = Some(<<"Could not parse OpenAi response content">>)
    /\ file # <<>>
    /\ file = file_contents

(* The engine has answered and annotate has dealt with the message.        *)
MessageHandled == message # None /\ pc # "parse"

TheMessage == message[1]

IsRefusal(m) == m.refusal # None /\ m.content = None

NothingApplied ==
    /\ response_annotations = <<>>
    /\ annotations = <<>>
    /\ write_buffer = <<>>
    /\ file = file_contents

(* C15: when the message is a refusal, annotate fails with an error whose  *)
(* context carries the refusal text; nothing is decoded or applied.        *)
C15_RefusalAborts ==
    MessageHandled =>
        (IsRefusal(TheMessage) =>
             /\ pc = "failed"
             /\ result = "Err"
             /\ error # <<>>
             /\ LastOopsie.ctx # None
             /\ TheMessage.refusal[1] \in Range(LastOopsie.ctx[1])
             /\ NothingApplied)

C15_Witness ==
    /\ MessageHandled
    /\ IsRefusal(TheMessage)
    /\ pc = "failed"
    /\ LastOopsie.variant = "AnnotateError"
    /\ file # <<>>

HasBoth(m) == m.content # None /\ m.refusal # None
HasNeither(m) == m.content = None /\ m.refusal = None

(* C16: when the message has both content and refusal, or neither,         *)
(* Message::parse returns OpenAIContentAndRefusal, resp.                   *)
(* OpenAIEmptyContent, and annotate fails without decoding anything.       *)
C16_BothOrNeitherIsAnError ==
    MessageHandled =>
        ((HasBoth(TheMessage) \/ HasNeither(TheMessage)) =>
             /\ ~Message_parse(TheMessage).ok
             /\ pc = "failed"
             /\ result = "Err"
             /\ Len(error) = 2
             /\ error[1].variant = (IF HasBoth(TheMessage) THEN "OpenAIContentAndRefusal"
                                    ELSE "OpenAIEmptyContent")
             /\ error[2].variant = "AnnotateError"
             /\ NothingApplied)

C16_Witness ==
    /\ MessageHandled
    /\ HasBoth(TheMessage)
    /\ pc = "failed"
    /\ error[1].variant = "OpenAIContentAndRefusal"

(* The message is content only: the text annotate decodes.                 *)
HasContentOnly(m) == m.content # None /\ m.refusal = None

(* The members of an object with a given key, as a set of values.          *)
ValueSet(v, k) == {v.members[i].value : i \in {j \in 1..Len(v.members) : v.members[j].key = k}}

Keys(v) == {v.members[i].key : i \in 1..Len(v.members)}

(* An annotation item as the schema describes it: an object with a         *)
(* numeric, non-negative, whole line_number and a string content.          *)
ItemHasFields(v) ==
    IF v.t # "obj" THEN FALSE
    ELSE /\ {"line_number", "content"} \subseteq Keys(v)
         /\ \A n \in ValueSet(v, "line_number") : is_usize(n)
         /\ \A c \in ValueSet(v, "content") : c.t = "str"

(* A text as the schema describes it, additional properties aside.         *)
DocHasFields(v) ==
    IF v.t # "obj" THEN FALSE
    ELSE /\ "annotations" \in Keys(v)
         /\ \A a \in ValueSet(v, "annotations") :
                IF a.t # "arr" THEN FALSE
                ELSE \A i \in 1..Len(a.items) : ItemHasFields(a.items[i])

ContentIsBroken ==
    IF HasContentOnly(TheMessage) THEN ~DocHasFields(TheMessage.content[1]) ELSE FALSE

(* C17: a content that is not JSON, has a field of the wrong type or lacks *)
(* a required field makes annotate fail, with nothing decoded or applied.  *)
C17_BrokenContentIsAnError ==
    (MessageHandled /\ ContentIsBroken) =>
        /\ pc = "failed"
        /\ result = "Err"
        /\ NothingApplied

ItemHasAdditionalProperty(v) ==
    IF v.t # "obj" THEN FALSE ELSE Keys(v) \ {"line_number", "content"} # {}

DocHasAdditionalProperty(v) ==
    IF v.t # "obj" THEN FALSE
    ELSE \/ Keys(v) \ {"annotations"} # {}
         \/ \E a \in ValueSet(v, "annotations") :
                IF a.t # "arr" THEN FALSE
                ELSE \E i \in 1..Len(a.items) : ItemHasAdditionalProperty(a.items[i])

ContentHasAdditionalProperty ==
    IF HasContentOnly(TheMessage) THEN DocHasAdditionalProperty(TheMessage.content[1])
    ELSE FALSE

(* C18: a content whose top-level object or whose annotation items carry   *)
(* an additional property makes annotate fail, with nothing decoded.       *)
C18_AdditionalPropertyIsAnError ==
    (MessageHandled /\ ContentHasAdditionalProperty) =>
        /\ pc = "failed"
        /\ result = "Err"
        /\ NothingApplied

-----------------------------------------------------------------------------
(* Window, rebasing and merge together (specification Spec).               *)

(* The window the code selected, also when line_end - line_start wrapped.  *)
TakenCount ==
    IF subtraction_overflows(line_start, line_end)
    THEN wrapped_take_count(line_start, line_end)
    ELSE take_count(line_start, line_end)

Window == select_window(file_contents, line_start, TakenCount)

C29_DecodedChoiceFinishedWithStop ==
    message # None =>
        /\ choices # <<>>
        /\ choices[1].message = message[1]
        /\ choices[1].finish_reason = "Stop"

-----------------------------------------------------------------------------
(* Further properties of apply_annotations (specification SpecApply).      *)

LinesWithRecords == {n \in 1..Len(DocLines) : RecordsAt(n) # {}}

(* C27: whatever other records there are, every line n of the document     *)
(* that has records has, immediately before it in the output, the comment  *)
(* block of the first of them in sorted order.                             *)
C27_UnmatchableRecordsDoNotBlock ==
    ApplyDone =>
        \E b \in [1..Len(DocLines) -> BlockChoices] :
            /\ \A n \in LinesWithRecords : b[n] = Block(FirstRecordAt(n).content)
            /\ write_buffer = Flatten([n \in 1..Len(DocLines) |-> b[n] \o DocLines[n] \o <<NL>>])

IsSuffix(x, l) == Len(x) <= Len(l) /\ SubSeq(l, Len(l) - Len(x) + 1, Len(l)) = x

(* prefix + "yap :: " + text + suffix, for some text.                      *)
IsCommentLine(l) ==
    /\ Len(l) >= Len(file_type_info.comment_prefix) + Len(YapTag)
                     + Len(file_type_info.comment_suffix)
    /\ IsPrefix(file_type_info.comment_prefix \o YapTag, l)
    /\ IsSuffix(file_type_info.comment_suffix, l)

(* C28: every line of the output is a line of the document or a comment    *)
(* line prefix + "yap :: " + text + suffix.                                *)
C28_OnlyDocumentAndCommentLines ==
    ApplyDone =>
        \A i \in 1..Len(OutputLines) :
            OutputLines[i] \in Range(DocLines) \/ IsCommentLine(OutputLines[i])

-----------------------------------------------------------------------------
(* err.rs on its own: an Error is built by wrap and because as it goes up  *)
(* the call stack, then main displays it.                                  *)

(* Kinds with a default explanation and kinds without.                     *)
OopsKinds == {"OpenAIKeyMissing", "OpenAIEmptyChoices", "AnnotateError", "DbError"}

Contexts == {<<"first reason">>, <<"second reason">>}

(* A faulty variant that knows no explanation.                             *)
explain_nothing(oops) == None

(* Oops::explain (the texts without their backquotes).                     *)
explain(oops) ==
    CASE oops = "OpenAIEmptyChoices" ->
             Some(<<"OpenAI did not provide any response choices.">>)
      [] oops = "OpenAIKeyMissing" ->
             Some(<<"set $OPENAI_API_KEY in your environment">>)
      [] oops = "OpenAIContentAndRefusal" ->
             Some(<<"OpenAI message contained content and refusal. This should never happen.">>)
      [] oops = "OpenAIEmptyContent" ->
             Some(<<"OpenAI messages contains neither content nor refusal. This should never happen.">>)
      [] oops = "UreqTransportError" ->
             Some(<<"A HTTP transport error occurred. Double-check your internet connection. Enable debug logging for more details.">>)
      [] OTHER -> None

alt == <<"details not available">>

(* One writeln! of the loop: the indent (in units of two spaces), the      *)
(* kind, and what follows " :: ".                                          *)
fmt_item(indent, item) ==
    [indent |-> indent + 1,
     er_code |-> item.variant,
     text |-> IF item.ctx # None THEN item.ctx[1]
              ELSE IF explain(item.variant) # None THEN explain(item.variant)[1]
              ELSE alt]

(* Display for Error: the heading, then the oopsies from first to last.    *)
fmt(e) ==
    [heading |-> "Oops! One or more errors occurred;",
     items |-> [i \in 1..Len(e) |-> fmt_item(i - 1, e[i])]]

InitErr ==
    /\ pc = "error"
    /\ result = "running"
    /\ error = Error_default
    /\ AnnotateIdle
    /\ ElsewhereIdle

(* A caller wraps the error.                                               *)
ErrWrap ==
    /\ pc = "error"
    /\ Len(error) < MaxOopsies
    /\ \E oops \in OopsKinds : error' = wrap(error, oops)
    /\ UNCHANGED <<pc, result, rendered>>
    /\ UNCHANGED <<conversations, trunc, listed, chat_file, path, uuid>>
    /\ UNCHANGED annotate_state

(* A caller says why.                                                      *)
ErrBecause ==
    /\ pc = "error"
    /\ \E ctx \in Contexts : error' = because(error, ctx)
    /\ UNCHANGED <<pc, result, rendered>>
    /\ UNCHANGED <<conversations, trunc, listed, chat_file, path, uuid>>
    /\ UNCHANGED annotate_state

(* Error::display: nothing for an error without oopsies, else Display.     *)
ErrDisplay ==
    /\ pc = "error"
    /\ rendered' = IF error = <<>> THEN None ELSE Some(fmt(error))
    /\ pc' = "displayed"
    /\ result' = "Err"
    /\ UNCHANGED <<error, conversations, trunc, listed, chat_file, path, uuid>>
    /\ UNCHANGED annotate_state

NextErr ==
    \/ ErrWrap
    \/ ErrBecause
    \/ ErrDisplay

SpecErr == InitErr /\ [][NextErr]_vars

-----------------------------------------------------------------------------
(* Properties of the error chain (specification SpecErr).                  *)

Displayed == pc = "displayed" /\ rendered # None

Items == rendered[1].items

(* C21: the chain is printed outermost first: the i-th line printed is the *)
(* i-th frame counted from the one wrapped last.                           *)
C21_OutermostFrameFirst ==
    Displayed =>
        /\ Len(Items) = Len(error)
        /\ \A i \in 1..Len(error) : Items[i].er_code = error[Len(error) + 1 - i].variant

KindsWithDefault ==
    {"OpenAIEmptyChoices", "OpenAIKeyMissing", "OpenAIContentAndRefusal",
     "OpenAIEmptyContent", "UreqTransportError"}

C25_BecauseLastFrameOnly ==
    [][pc' = "error" =>
          \/ /\ Len(error') = Len(error)
             /\ \A i \in 1..Len(error) :
                    /\ error'[i].variant = error[i].variant
                    /\ i < Len(error) => error'[i].ctx = error[i].ctx
             /\ error # <<>> => error'[Len(error)].ctx # None
          \/ /\ Len(error') = Len(error) + 1
             /\ SubSeq(error', 1, Len(error)) = error
             /\ error'[Len(error')].ctx = None]_vars

C25_Witness ==
    /\ pc = "error"
    /\ Len(error) = 3
    /\ error[1].ctx = None
    /\ error[2].ctx = Some(<<"first reason">>)
    /\ error[3].ctx = Some(<<"second reason">>)

-----------------------------------------------------------------------------
(* The chatlog command (src/src/chatlog.rs): the stored conversations are  *)
(* sorted by access time, most recent first, and the first ones are        *)
(* listed.                                                                 *)

(* A chat file: its id, its access time, and the first line of the message *)
(* to show, if it has one.                                                 *)
Conversation ==
    [id : 1..MaxConversations, accessed : 1..MaxConversations,
     first_line : {None, Some("hi")}]

(* What list_conversations returns: the files of the directory, in the     *)
(* directory's order, each under its own name.                             *)
ConversationLists ==
    {cs \in VecsUpTo(Conversation, MaxConversations) : \A i \in 1..Len(cs) : cs[i].id = i}

(* tuples.sort_by(|a, b| b.0.cmp(&a.0)): stable, by descending time.       *)
RECURSIVE insert_by_time(_, _)
insert_by_time(sorted, c) ==
    IF sorted = <<>> THEN <<c>>
    ELSE IF Head(sorted).accessed >= c.accessed
        THEN <<Head(sorted)>> \o insert_by_time(Tail(sorted), c)
    ELSE <<c>> \o sorted

RECURSIVE sort_by_time(_)
sort_by_time(cs) ==
    IF cs = <<>> THEN <<>>
    ELSE insert_by_time(sort_by_time(SubSeq(cs, 1, Len(cs) - 1)), cs[Len(cs)])

(* ConversationSet::new                                                    *)
ConversationSet_new(cs) == sort_by_time(cs)

(* (limit.unwrap_or(self.0.len()) + 1).min(self.0.len())                   *)
load_limit(set, limit) == Min((IF limit = None THEN Len(set) ELSE limit[1]) + 1, Len(set))

(* ConversationSet::load: the conversations of self.0[0..limit] that have  *)
(* a line to show, in order.                                               *)
load(set, limit) ==
    LET slice == SubSeq(set, 1, load_limit(set, limit))
        shown == SelectSeq(slice, LAMBDA c : c.first_line # None)
    IN  [i \in 1..Len(shown) |-> shown[i].id]

Truncs == {Some(n) : n \in 0..MaxConversations}

InitChatlog ==
    /\ pc = "chatlog"
    /\ result = "running"
    /\ error = Error_default
    /\ AnnotateIdle
    /\ rendered = None
    /\ conversations \in ConversationLists
    /\ trunc \in Truncs
    /\ listed = <<>>
    /\ chat_file = NoChatFile
    /\ path = None
    /\ uuid = None

(* chatlog(trunc)                                                          *)
Chatlog ==
    /\ pc = "chatlog"
    /\ listed' = load(ConversationSet_new(conversations), trunc)
    /\ result' = "Ok"
    /\ pc' = "chatlog_done"
    /\ UNCHANGED <<error, rendered, conversations, trunc, chat_file, path, uuid>>
    /\ UNCHANGED annotate_state

(* db::list_conversations fails: nothing is listed.                        *)
ChatlogFails ==
    /\ pc = "chatlog"
    /\ error' = because(wrap(Error_default, "DbError"),
                        <<"could not read chat dir: ", "io error">>)
    /\ result' = "Err"
    /\ pc' = "chatlog_failed"
    /\ UNCHANGED <<rendered, conversations, trunc, listed, chat_file, path, uuid>>
    /\ UNCHANGED annotate_state

NextChatlog ==
    \/ Chatlog
    \/ ChatlogFails

SpecChatlog == InitChatlog /\ [][NextChatlog]_vars

(* The stored conversations that have a line to show, most recent first.   *)
Showable ==
    LET shown == SelectSeq(ConversationSet_new(conversations), LAMBDA c : c.first_line # None)
    IN  [i \in 1..Len(shown) |-> shown[i].id]

(* C23: with --trunc N at most N conversations are listed, and they are    *)
(* the first ones of the list ordered by time, descending.                 *)
C23_AtMostTruncListed ==
    pc = "chatlog_done" =>
        /\ Len(listed) <= trunc[1]
        /\ IsPrefix(listed, Showable)

-----------------------------------------------------------------------------
(* The chat command with a prompt and a chat id (src/src/chat.rs,          *)
(* resume_chat): one action per outcome of a turn.  The chat file holds    *)
(* the JSON text save_chat wrote.                                          *)

(* Message::new                                                            *)
Message_new(role, content) == [role |-> role, content |-> Some(content), refusal |-> None]

(* Serialize for Message, and for a slice of them.                         *)
option_json(o) == IF o = None THEN JNull ELSE JStr(o[1])

message_json(m) ==
    JObj(<<Member("role", JStr(<<m.role>>)),
           Member("content", option_json(m.content)),
           Member("refusal", option_json(m.refusal))>>)

to_writer(messages) == JArr([i \in 1..Len(messages) |-> message_json(messages[i])])

(* Deserialize for Message, and for a Vec of them.                         *)
is_option(v) == v.t \in {"null", "str"}

option_of(v) == IF v.t = "null" THEN None ELSE Some(v.s)

message_ok(v) ==
    IF v.t # "obj" THEN FALSE
    ELSE /\ Len(ValuesOf(v, "role")) = 1
         /\ Len(ValuesOf(v, "content")) <= 1
         /\ Len(ValuesOf(v, "refusal")) <= 1
         /\ IF ValuesOf(v, "role")[1].t = "str"
            THEN ValuesOf(v, "role")[1].s \in {<<"system">>, <<"user">>, <<"assistant">>}
            ELSE FALSE
         /\ \A i \in 1..Len(ValuesOf(v, "content")) : is_option(ValuesOf(v, "content")[i])
         /\ \A i \in 1..Len(ValuesOf(v, "refusal")) : is_option(ValuesOf(v, "refusal")[i])

message_of(v) ==
    [role |-> ValuesOf(v, "role")[1].s[1],
     content |-> IF ValuesOf(v, "content") = <<>> THEN None
                 ELSE option_of(ValuesOf(v, "content")[1]),
     refusal |-> IF ValuesOf(v, "refusal") = <<>> THEN None
                 ELSE option_of(ValuesOf(v, "refusal")[1])]

from_reader(v) ==
    IF v.t = "arr" /\ \A i \in 1..Len(v.items) : message_ok(v.items[i])
    THEN [ok |-> TRUE, messages |-> [i \in 1..Len(v.items) |-> message_of(v.items[i])]]
    ELSE [ok |-> FALSE]

(* db::get_chat: no messages when there is no file, else the file's.       *)
get_chat(f) ==
    IF ~f.exists THEN [ok |-> TRUE, messages |-> <<>>]
    ELSE IF from_reader(f.text).ok THEN from_reader(f.text)
    ELSE [ok |-> FALSE,
          err |-> because(wrap(Error_default, "DbError"),
                          <<"Failed to deserialize chat file", "serde error">>)]

(* db::save_chat, when it succeeds.                                        *)
save_chat(messages) == [exists |-> TRUE, text |-> to_writer(messages)]

(* prompt.join(" ")                                                        *)
RECURSIVE join(_)
join(words) ==
    IF words = <<>> THEN <<>>
    ELSE IF Len(words) = 1 THEN Head(words)
    ELSE Head(words) \o <<" ">> \o join(Tail(words))

Prompts == {<<<<"h", "i">>>>, <<<<"h", "i">>, <<"y", "o", "u">>>>}

(* The system prompt: the default one, or the configured one.              *)
SystemPrompts == {<<"default chat prompt">>, <<"custom prompt">>}

(* The messages of the choices the engine replies with.                    *)
Replies ==
    {[role |-> "assistant", content |-> Some(<<"o", "k">>), refusal |-> None],
     [role |-> "assistant", content |-> None, refusal |-> Some(<<"n", "o">>)],
     [role |-> "assistant", content |-> Some(<<"o", "k">>), refusal |-> Some(<<"n", "o">>)],
     [role |-> "assistant", content |-> None, refusal |-> None]}

(* A faulty variant that puts a system prompt first at every turn.         *)
with_system_prompt_every_turn(messages, system_prompt) ==
    <<Message_new("system", system_prompt)>> \o messages

(* if messages.is_empty() { messages.push(Message::new(Role::System, ..)) } *)
with_system_prompt(messages, system_prompt) ==
    IF messages = <<>> THEN <<Message_new("system", system_prompt)>> ELSE messages

(* The history resume_chat saves: the system prompt if there was nothing,  *)
(* the user's prompt, the reply.                                           *)
next_messages(messages, system_prompt, prompt, reply) ==
    with_system_prompt(messages, system_prompt)
        \o <<Message_new("user", join(prompt)), reply>>

InitChat ==
    /\ pc = "chat_turn"
    /\ result = "running"
    /\ error = Error_default
    /\ AnnotateIdle
    /\ ElsewhereIdle

(* More turns than MaxTurns are not followed.                              *)
TurnsLeft ==
    IF get_chat(chat_file).ok THEN Len(get_chat(chat_file).messages) < 2 * MaxTurns
    ELSE FALSE

ChatFrame ==
    /\ UNCHANGED <<pc, rendered, conversations, trunc, listed, path, uuid>>
    /\ UNCHANGED annotate_state

(* resume_chat: everything succeeds up to save_chat; the reply is then     *)
(* parsed and printed, or is an error.                                     *)
ResumeChat ==
    /\ pc = "chat_turn"
    /\ TurnsLeft
    /\ \E system_prompt \in SystemPrompts, prompt \in Prompts, reply \in Replies :
           /\ chat_file' = save_chat(next_messages(get_chat(chat_file).messages,
                                                   system_prompt, prompt, reply))
           /\ result' = IF Message_parse(reply).ok THEN "Ok" ELSE "Err"
           /\ error' = IF Message_parse(reply).ok THEN Error_default
                       ELSE Message_parse(reply).err
    /\ ChatFrame

(* db::get_chat fails: the file cannot be deserialized.                    *)
ResumeChatGetFails ==
    /\ pc = "chat_turn"
    /\ ~get_chat(chat_file).ok
    /\ result' = "Err"
    /\ error' = get_chat(chat_file).err
    /\ UNCHANGED chat_file
    /\ ChatFrame

(* The first turn cannot load the system prompt.                           *)
ResumeChatPromptFails ==
    /\ pc = "chat_turn"
    /\ TurnsLeft
    /\ get_chat(chat_file).messages = <<>>
    /\ \E e \in ConfigErrors :
           error' = because(wrap(e, "ChatError"),
                            <<"Could not load system prompt during chat">>)
    /\ result' = "Err"
    /\ UNCHANGED chat_file
    /\ ChatFrame

(* The errors openai::chat returns.                                        *)
EngineErrors == ChatErrors \cup {validate(r).err : r \in {x \in Responses : ~validate(x).ok}}

(* openai::chat fails.                                                     *)
ResumeChatEngineFails ==
    /\ pc = "chat_turn"
    /\ TurnsLeft
    /\ \E e \in EngineErrors : error' = e
    /\ result' = "Err"
    /\ UNCHANGED chat_file
    /\ ChatFrame

(* save_chat cannot create the file.                                       *)
ResumeChatCreateFails ==
    /\ pc = "chat_turn"
    /\ TurnsLeft
    /\ error' = because(wrap(Error_default, "DbError"),
                        <<"Could not open or create chat file", "io error">>)
    /\ result' = "Err"
    /\ UNCHANGED chat_file
    /\ ChatFrame

(* save_chat creates (truncates) the file, then to_writer fails.           *)
ResumeChatWriteFails ==
    /\ pc = "chat_turn"
    /\ TurnsLeft
    /\ chat_file' = [exists |-> TRUE, text |-> JMalformed]
    /\ error' = because(wrap(Error_default, "DbError"),
                        <<"Failed to serialize chat to file", "io error">>)
    /\ result' = "Err"
    /\ ChatFrame

NextChat ==
    \/ ResumeChat
    \/ ResumeChatGetFails
    \/ ResumeChatPromptFails
    \/ ResumeChatEngineFails
    \/ ResumeChatCreateFails
    \/ ResumeChatWriteFails

SpecChat == InitChat /\ [][NextChat]_vars

-----------------------------------------------------------------------------
(* Properties of the chat history (specification SpecChat).                *)

(* The persisted history, when the file can be read.                       *)
Readable == get_chat(chat_file).ok
History == get_chat(chat_file).messages

(* One system message, then user / reply pairs.                            *)
SystemThenPairs(h) ==
    \/ h = <<>>
    \/ /\ Len(h) % 2 = 1
       /\ h[1].role = "system"
       /\ \A i \in 2..Len(h) :
              /\ h[i].role # "system"
              /\ (i % 2 = 0) => (h[i].role = "user" /\ h[i].refusal = None)
              /\ (i % 2 = 1) => h[i] \in Replies

(* The turn's history is the previous one, a system message first if there *)
(* was none, then the user's prompt and the reply.                         *)
ExtendedByOneTurn(old, new) ==
    LET base == IF old = <<>> THEN 1 ELSE Len(old) IN
    /\ Len(new) = base + 2
    /\ old # <<>> => SubSeq(new, 1, Len(old)) = old
    /\ old = <<>> => new[1].role = "system"
    /\ \E prompt \in Prompts : new[base + 1] = Message_new("user", join(prompt))
    /\ new[base + 2] \in Replies

(* C24: a successful turn extends the persisted history by the prompt and  *)
(* the reply (after one system message if it was empty); a turn whose      *)
(* engine call fails leaves it unchanged; the history is always one system *)
(* message followed by user / reply pairs.                                 *)
C24_HistoryGrowsByPromptAndReply ==
    /\ [](Readable => SystemThenPairs(History))
    /\ [][/\ result' = "Ok" => ExtendedByOneTurn(History, History')
          /\ error' \in EngineErrors => chat_file' = chat_file]_vars

C24_Witness ==
    /\ pc = "chat_turn"
    /\ result = "Ok"
    /\ Readable
    /\ Len(History) = 5
    /\ History[1].role = "system"
    /\ History[2] = Message_new("user", <<"h", "i">>)
    /\ History[4] = Message_new("user", <<"h", "i", " ", "y", "o", "u">>)
    /\ History[5].content = Some(<<"o", "k">>)

-----------------------------------------------------------------------------
(* parse_uuid (src/src/db.rs): a conversation's id from its path.  A path  *)
(* is given by its file name, a string of characters, if it has one, and   *)
(* by whether that name is unicode.                                        *)

HexDigits == {"0", "1", "2", "3", "4", "5", "6", "7", "8", "9",
              "a", "b", "c", "d", "e", "f"}

(* The id of the test, as {id}.json spells it, and without its hyphens.    *)
UuidText ==
    <<"4", "a", "0", "1", "6", "e", "2", "5", "-", "6", "0", "f", "4", "-",
      "4", "3", "5", "5", "-", "8", "1", "6", "5", "-",
      "9", "7", "a", "b", "f", "f", "7", "b", "e", "7", "9", "b">>

SimpleUuidText ==
    <<"4", "a", "0", "1", "6", "e", "2", "5", "6", "0", "f", "4",
      "4", "3", "5", "5", "8", "1", "6", "5",
      "9", "7", "a", "b", "f", "f", "7", "b", "e", "7", "9", "b">>

(* The parts file names are made of.                                       *)
NameParts ==
    {UuidText, SimpleUuidText, <<"n", "o", "t", "e", "s">>, <<"j", "s", "o", "n">>,
     <<"b", "a", "k">>, <<>>}

RECURSIVE join_with(_, _)
join_with(parts, sep) ==
    IF Len(parts) = 1 THEN Head(parts)
    ELSE Head(parts) \o <<sep>> \o join_with(Tail(parts), sep)

PartLists == UNION {[1..n -> NameParts] : n \in 1..MaxParts}

Paths ==
    {[file_name |-> Some(join_with(ps, ".")), unicode |-> TRUE] : ps \in PartLists}
    \cup {[file_name |-> None, unicode |-> TRUE],
          [file_name |-> Some(<<"n", "o", "t", "e", "s">>), unicode |-> FALSE]}

(* str::split: the pieces between the occurrences of the separator.        *)
split(name, sep) ==
    LET cuts == {0, Len(name) + 1} \cup {i \in 1..Len(name) : name[i] = sep}
        cut(k) == CHOOSE c \in cuts : Cardinality({b \in cuts : b < c}) = k - 1
    IN  [k \in 1..(Cardinality(cuts) - 1) |-> SubSeq(name, cut(k) + 1, cut(k + 1) - 1)]

(* Uuid::parse_str: 32 hexadecimal digits, plain or in hyphenated groups   *)
(* of 8, 4, 4, 4 and 12; the id is its digits.                             *)
IsHex(t) == \A i \in 1..Len(t) : t[i] \in HexDigits

Uuid_parse_str(t) ==
    IF Len(t) = 32 /\ IsHex(t) THEN [ok |-> TRUE, uuid |-> t]
    ELSE IF Len(t) = 36
         THEN IF /\ \A i \in {9, 14, 19, 24} : t[i] = "-"
                 /\ \A i \in (1..36) \ {9, 14, 19, 24} : t[i] \in HexDigits
              THEN [ok |-> TRUE, uuid |-> SelectSeq(t, LAMBDA c : c # "-")]
              ELSE [ok |-> FALSE]
    ELSE [ok |-> FALSE]

DbError(ctx) == because(wrap(Error_default, "DbError"), <<ctx>>)

(* parts.enumerate().fold(0, |_, (i, _)| i): the index of the last of the  *)
(* remaining parts, 0 when there is none.                                  *)
last_index(parts) == IF parts = <<>> THEN 0 ELSE Len(parts) - 1

parse_uuid(p) ==
    IF p.file_name = None
        THEN [ok |-> FALSE, err |-> DbError("conversation path has no filename")]
    ELSE IF ~p.unicode
        THEN [ok |-> FALSE, err |-> DbError("cannot convert filename into string")]
    ELSE LET parts == split(p.file_name[1], ".") IN
         IF Len(parts) < 2
             THEN [ok |-> FALSE, err |-> DbError("cannot find second part")]
         ELSE IF parts[2] # <<"j", "s", "o", "n">>
             THEN [ok |-> FALSE, err |-> DbError("file extension != json")]
         ELSE IF last_index(SubSeq(parts, 3, Len(parts))) # 0
             THEN [ok |-> FALSE, err |-> DbError("file name has more parts than expected")]
         ELSE IF Uuid_parse_str(parts[1]).ok
             THEN [ok |-> TRUE, uuid |-> Uuid_parse_str(parts[1]).uuid]
         ELSE [ok |-> FALSE, err |-> DbError("cannot parse UUID from file")]

InitUuid ==
    /\ pc = "parse_uuid"
    /\ result = "running"
    /\ error = Error_default
    /\ AnnotateIdle
    /\ rendered = <<>>
    /\ conversations = <<>>
    /\ trunc = None
    /\ listed = <<>>
    /\ chat_file = NoChatFile
    /\ path \in Paths
    /\ uuid = None

UuidFrame ==
    /\ UNCHANGED <<rendered, conversations, trunc, listed, chat_file, path>>
    /\ UNCHANGED annotate_state

(* parse_uuid returns the id.                                              *)
ParseUuid ==
    /\ pc = "parse_uuid"
    /\ parse_uuid(path).ok
    /\ uuid' = Some(parse_uuid(path).uuid)
    /\ result' = "Ok"
    /\ pc' = "parsed"
    /\ UNCHANGED error
    /\ UuidFrame

(* parse_uuid returns an error.                                            *)
ParseUuidFails ==
    /\ pc = "parse_uuid"
    /\ ~parse_uuid(path).ok
    /\ error' = parse_uuid(path).err
    /\ result' = "Err"
    /\ pc' = "parsed"
    /\ UNCHANGED uuid
    /\ UuidFrame

NextUuid ==
    \/ ParseUuid
    \/ ParseUuidFails

SpecUuid == InitUuid /\ [][NextUuid]_vars

-----------------------------------------------------------------------------
(* Properties of parse_uuid (specification SpecUuid).                      *)

(* The dot-separated parts of the path's file name.                        *)
NameOf(p) == IF p.file_name = None \/ ~p.unicode THEN <<>> ELSE p.file_name[1]
PartsOf(p) == split(NameOf(p), ".")

(* Exactly two parts: a valid id, then json.                               *)
IsIdDotJson(p) ==
    /\ p.file_name # None
    /\ p.unicode
    /\ Len(PartsOf(p)) = 2
    /\ Uuid_parse_str(PartsOf(p)[1]).ok
    /\ PartsOf(p)[2] = <<"j", "s", "o", "n">>

(* C30: a path is accepted only when its file name is exactly a valid id,  *)
(* a dot and json, and that id is returned; every other name (a third      *)
(* part, another extension, none, a first part that is no id) is rejected  *)
(* with a DbError.                                                         *)
C30_OnlyIdDotJsonAccepted ==
    pc = "parsed" =>
        IF IsIdDotJson(path)
        THEN result = "Ok" /\ uuid = Some(Uuid_parse_str(PartsOf(path)[1]).uuid)
        ELSE result = "Err" /\ LastOopsie.variant = "DbError"

=============================================================================
